---- MODULE Spec2Model ----
(***************************************************************************)
(* The connection multiplexer of mpd_client (src/src/client.rs): the run   *)
(* loop that owns the transport and interleaves `idle` notifications with  *)
(* user commands, together with the Client handles that submit commands,   *)
(* the state-changes subscriber, the transport and the MPD server at the   *)
(* other end of it.                                                        *)
(***************************************************************************)
EXTENDS Integers, Sequences, FiniteSets, TLC

\* Number of command submissions the callers make in a run.
MaxSubs == 2
\* The server reports a new change only while fewer than this many items
\* wait in the (unbounded) state-changes channel.
MaxBacklog == 1
\* mpsc::channel(2) in do_connect.
CommandsCapacity == 2
\* The longest command list a caller passes to command_list.
MaxList == 3

Subs == 1..MaxSubs
\* The subsystems the server reports, in the order it lists them in a frame.
SubsystemOrder == <<"player", "mixer">>
Subsystems == {SubsystemOrder[i] : i \in 1..Len(SubsystemOrder)}

VARIABLES
    loop_state,     \* State::loop_state: "Idling" or "WaitingForCommandReply"
    responder,      \* the CommandResponder the loop holds (0: none)
    pc,             \* where run_loop is suspended
    commands,       \* the bounded command channel: queued submissions
    closed,         \* every Client handle (Sender) has been dropped
    state_changes,  \* the unbounded state-changes channel
    subscribed,     \* the StateChanges receiver still exists
    wire,           \* requests written to the transport, not yet read by the server
    inbox,          \* what connection.next() will yield, in order
    write_ok,       \* connection.send succeeds
    srvIdle,        \* the server is inside an `idle`
    srvChanged,     \* subsystems changed since the server last reported
    srvUp,          \* the server has not closed the connection
    caller,         \* per submission: the future returned by do_send
    sent,           \* per submission: values passed to responder.send
    dropped,        \* per submission: responder dropped without a send
    wrote,          \* per submission: successful writes of its command
    prevWrite,      \* per submission: the write that preceded its command
    takenIn,        \* per submission: loop state when taken from the channel
    cancelFrame,    \* changed fields of the frame read after `noidle`, until the command is sent
    preEmitted,     \* what was sent to state_changes from that frame
    lastWrite,      \* the last request passed to connection.send
    fatal,          \* the transport yielded an error or a write failed
    exitedOn,       \* why run_loop_iteration returned None ("": it has not)
    pending,        \* requests written whose response has not been read, in order
    inflight,       \* chunks of a response the transport has not delivered yet
    rxbuf,          \* lines the codec has received that do not yet end a response
    api,            \* the Client method a caller is in
    list,           \* its input: the commands, in order
    reply,          \* what do_send will return to it
    call_pc,        \* where the call is
    iter,           \* `for frame in res`: the items not yet visited
    frames,         \* the Vec of frames collected so far
    ret,            \* the value the call returned
    given,          \* the Frame handed to Status::from_frame
    raw,            \* `raw`: what the gets for `single` and `duration` left of it
    single,         \* `single`, once computed
    duration,       \* `duration`, once computed
    conv_pc,        \* where from_frame is
    result          \* what from_frame returned

\* The connection: run_loop, its channels, the transport and the server.
connVars == <<loop_state, responder, pc, commands, closed, state_changes, subscribed,
              wire, inbox, write_ok, srvIdle, srvChanged, srvUp, caller, sent,
              dropped, wrote, prevWrite, takenIn, cancelFrame, preEmitted, lastWrite,
              fatal, exitedOn, pending, inflight, rxbuf>>
\* One call of command_list or raw_command_list.
callVars == <<api, list, reply, call_pc, iter, frames, ret>>

\* One call of Status::from_frame.
convVars == <<given, raw, single, duration, conv_pc, result>>

vars == <<connVars, callVars, convVars>>

muxVars == <<loop_state, responder, pc>>
srvVars == <<srvIdle, srvChanged, srvUp>>
\* The bytes on their way from the server to connection.next().
rxVars == <<inflight, rxbuf>>
histVars == <<wrote, prevWrite, takenIn, cancelFrame, preEmitted, exitedOn, pending>>

----------------------------------------------------------------------------
\* The submissions of the run: one per future that do_send returns.
Callers == DOMAIN caller

\* Requests and responses

idle == [op |-> "idle", id |-> 0]
cancel_idle == [op |-> "noidle", id |-> 0]
Command(s) == [op |-> "cmd", id |-> s]

\* A RawResponse: kind "ok" (its frame is Ok) or "ack" (its item is an
\* MpdError); changed: the values of the frame's `changed` fields in order;
\* re: the submission whose command it answers (0: an idle); fields: the keys
\* of the frame's other fields in order.
OkResponse(q, s) == [kind |-> "ok", changed |-> q, re |-> s, fields |-> <<>>]
AckResponse(s) == [kind |-> "ack", changed |-> <<>>, re |-> s, fields |-> <<>>]
\* Some(Err(e)) and None from connection.next().
CodecError == [kind |-> "err", changed |-> <<>>, re |-> 0, fields |-> <<>>]
\* Some(Err(e)) for the response to submission s, whose bytes the codec rejects.
MalformedResponse(s) == [kind |-> "err", changed |-> <<>>, re |-> s, fields |-> <<>>]
Eof == [kind |-> "eof", changed |-> <<>>, re |-> 0, fields |-> <<>>]

\* Items of the state-changes channel: a subsystem name, or Err(_).
ErrItem == "Err"

Range(q) == {q[i] : i \in 1..Len(q)}

\* The frame the server sends for a set of changed subsystems.
ChangedFields(set) == SelectSeq(SubsystemOrder, LAMBDA x : x \in set)

\* response_to_subsystem(res).transpose(): nothing, one Ok(subsystem) or an
\* Err. Frame::get removes and returns the first value of the key only.
response_to_subsystem(res) ==
    IF res.kind = "ack" THEN <<ErrItem>>
    ELSE IF res.changed # <<>> THEN <<Head(res.changed)>>
    ELSE <<>>

\* let _ = state.state_changes.send(item): a no-op once the receiver is gone.
SendStateChanges(ch, items) == IF subscribed THEN ch \o items ELSE ch

\* responder.send(value) on the responder of submission s.
ResponderSend(snt, s, v) == [snt EXCEPT ![s] = Append(@, v)]

\* What the caller's future of each submission has resolved to: `rx.await?`
\* yields the value sent, or ConnectionClosed once the responder is dropped.
ResolveOnValueOnly(snt, drp) ==
    [s \in Callers |->
        IF caller[s] # "waiting" THEN caller[s]
        ELSE IF snt[s] # <<>> THEN "replied"
        ELSE "waiting"]
Resolve(snt, drp) ==
    [s \in Callers |->
        IF caller[s] # "waiting" THEN caller[s]
        ELSE IF snt[s] # <<>> THEN "replied"
        ELSE IF drp[s] THEN "closed"
        ELSE "waiting"]

\* commands_sender.send((commands, tx)): the channel is first in, first out.
ChannelSendFront(q, s) == <<s>> \o q
ChannelSend(q, s) == Append(q, s)

\* commands_sender.send(..).await goes through only while the channel holds
\* fewer than its capacity; the sender waits otherwise.
AlwaysCapacity(q) == TRUE
HasCapacity(q) == Len(q) < CommandsCapacity

\* commands.try_recv(): a queued submission, Closed when nothing is queued and
\* every Sender is gone, Empty otherwise.
try_recv_IgnoringClosed ==
    IF commands # <<>> THEN "Ok" ELSE "Empty"
try_recv ==
    IF commands # <<>> THEN "Ok"
    ELSE IF closed THEN "Closed"
    ELSE "Empty"

----------------------------------------------------------------------------
\* The state do_connect leaves: `idle` written, run_loop spawned in Idling;
\* the callers in S have yet to submit.
ConnectedWith(S) ==
    /\ loop_state = "Idling"
    /\ responder = 0
    /\ pc = "loop"
    /\ commands = <<>>
    /\ closed = FALSE
    /\ state_changes = <<>>
    /\ subscribed = TRUE
    /\ wire = <<idle>>
    /\ inbox = <<>>
    /\ write_ok = TRUE
    /\ srvIdle = FALSE
    /\ srvChanged = {}
    /\ srvUp = TRUE
    /\ caller = [s \in S |-> "new"]
    /\ sent = [s \in S |-> <<>>]
    /\ dropped = [s \in S |-> FALSE]
    /\ wrote = [s \in S |-> 0]
    /\ prevWrite = [s \in S |-> "none"]
    /\ takenIn = [s \in S |-> "none"]
    /\ cancelFrame = <<>>
    /\ preEmitted = <<>>
    /\ lastWrite = idle
    /\ fatal = FALSE
    /\ exitedOn = ""
    /\ pending = <<idle>>
    /\ inflight = <<>>
    /\ rxbuf = <<>>

Connected == ConnectedWith(Subs)

\* No call of command_list or raw_command_list is under way.
NoCall ==
    /\ api = "none"
    /\ list = <<>>
    /\ reply = [closed |-> FALSE, items |-> <<>>]
    /\ call_pc = "returned"
    /\ iter = <<>>
    /\ frames = <<>>
    /\ ret = [kind |-> "none"]

\* No frame is being converted.
NoConversion ==
    /\ given = <<>>
    /\ raw = <<>>
    /\ single = <<>>
    /\ duration = <<>>
    /\ conv_pc = "returned"
    /\ result = [ok |-> TRUE, val |-> <<>>]

Init == Connected /\ NoCall /\ NoConversion

----------------------------------------------------------------------------
\* Pieces shared by the arms of run_loop_iteration

\* state.connection.send(req).await returning Ok, for each request of reqs.
ConnectionSendAll(reqs) ==
    /\ lastWrite' = reqs[Len(reqs)]
    /\ wire' = wire \o reqs

ConnectionSend(req) == ConnectionSendAll(<<req>>)

\* How often the command of submission s is among the requests reqs, and the
\* request written just before its first occurrence.
TimesWritten(reqs, s) == Cardinality({i \in 1..Len(reqs) : reqs[i] = Command(s)})
WrittenBefore(reqs, s) ==
    LET all == <<lastWrite>> \o reqs
        first == CHOOSE i \in 2..Len(all) :
                    /\ all[i] = Command(s)
                    /\ \A j \in 2..(i - 1) : all[j] # Command(s)
    IN all[first - 1].op

\* What is written once the canceled idle's frame was read: the command.
PreemptingCommandTwice(s) == <<Command(s), Command(s)>>
PreemptingCommandWrites(s) == <<Command(s)>>

\* What is written when try_recv finds the next command: that command.
NextCommandAfterNoidle(s) == <<cancel_idle, Command(s)>>
NextCommandWrites(s) == <<Command(s)>>

\* The loop state set when try_recv finds the channel empty.
StateAfterEmptyKept == "WaitingForCommandReply"
StateAfterEmpty == "Idling"

\* `state.connection.next().await?` while waiting for a reply: only None
\* leaves the loop.
ExitsOnAck(res) == res.kind \in {"eof", "ack"}
ExitsOnResponse(res) == res.kind = "eof"

\* state.connection.next().await yielded the head of inbox.
ConnectionNext == inbox' = Tail(inbox)

\* The requests that await a response after a step of run_loop: `noidle` has
\* no response of its own, and a response read (read: the step took the head
\* of inbox), well-formed or not, answers the oldest request; an I/O error
\* answers none.
AwaitingResponse(read) ==
    IF pc' = "exited" THEN <<>>
    ELSE LET answered == read /\ Head(inbox) # CodecError /\ pending # <<>>
             written == SubSeq(wire', Len(wire) + 1, Len(wire'))
         IN (IF answered THEN Tail(pending) ELSE pending)
            \o SelectSeq(written, LAMBDA req : req.op # "noidle")

\* `return None`: run_loop ends and drops its State: the responders in
\* `held` that were never sent on, the Receiver with what is still queued (q),
\* and the connection. why: the channel was closed, the transport ended, or
\* a read or write failed.
MuxExit(snt, held, q, why) ==
    /\ pc' = "exited"
    /\ exitedOn' = why
    /\ responder' = 0
    /\ commands' = <<>>
    /\ sent' = snt
    /\ dropped' = [s \in Callers |-> dropped[s] \/ s \in held \/ s \in Range(q)]
    /\ caller' = Resolve(sent', dropped')
    /\ wire' = <<>>
    /\ inbox' = <<>>
    /\ srvIdle' = FALSE
    /\ srvChanged' = {}
    /\ srvUp' = FALSE
    /\ inflight' = <<>>
    /\ rxbuf' = <<>>
    /\ UNCHANGED <<callVars, convVars>>

\* The loop goes on with the queue q, having sent snt on responders.
MuxGoesOn(snt, q) ==
    /\ commands' = q
    /\ sent' = snt
    /\ dropped' = dropped
    /\ caller' = Resolve(sent', dropped')
    /\ exitedOn' = exitedOn
    /\ UNCHANGED <<srvVars, rxVars, callVars, convVars>>

\* The value run_loop passes to responder.send for what connection.next()
\* yielded while waiting for a command's reply: response.map_err(Into::into).
ReplyValue(res) == IF res.kind = "err" THEN CodecError ELSE res

\* `command?` on None: what run_loop sends to state_changes when it finds the
\* command channel closed in Idling: nothing.
ChannelClosedErr == <<ErrItem>>
ChannelClosedItems == <<>>

\* StateChanges::next(): the next queued item; None once run_loop has ended
\* (its Sender is dropped) and nothing is queued; pending otherwise.
StateChangesPoll ==
    IF state_changes # <<>> THEN Head(state_changes)
    ELSE IF pc = "exited" THEN "None"
    ELSE "Pending"

\* `let _ = state.state_changes.send(state_change)`: the result of the send,
\* an error when the StateChanges receiver is gone, is discarded.
LeavesOnDroppedSubscriber(items) == items # <<>> /\ ~subscribed
LeavesOnFailedNotification(items) == FALSE

\* `let _ = responder.send(..)`: the result of the send, an error when the
\* caller dropped its future, is discarded; run_loop never leaves because of it.
LeavesOnDroppedReceiver(s) == caller[s] = "cancelled"
LeavesOnFailedSend(s) == FALSE

\* Where run_loop goes on after writing `noidle`: it reads the response to
\* CANCEL_IDLE before it sends the command.
SendsCommandAtOnce == "send_command"
AfterCancelIdle == "cancel_idle"

\* The responder that is told about a failed write of the next command.
FailedSendPrevious(old, new) == old
FailedSendResponder(old, new) == new

----------------------------------------------------------------------------
\* LoopState::Idling, Either::Left: the transport yielded something.
IdlingResponse ==
    /\ pc = "loop"
    /\ loop_state = "Idling"
    /\ inbox # <<>>
    /\ LET res == Head(inbox) IN
        CASE res.kind = "eof" ->
                /\ MuxExit(sent, {}, commands, "eof")
                /\ UNCHANGED <<state_changes, lastWrite, fatal>>
          [] res.kind = "err" ->
                /\ state_changes' = SendStateChanges(state_changes, <<ErrItem>>)
                /\ MuxExit(sent, {}, commands, "error")
                /\ fatal' = TRUE
                /\ UNCHANGED lastWrite
          [] LeavesOnFailedNotification(response_to_subsystem(res)) ->
                /\ MuxExit(sent, {}, commands, "error")
                /\ UNCHANGED <<state_changes, lastWrite, fatal>>
          [] OTHER ->
                IF write_ok
                THEN /\ state_changes' =
                          SendStateChanges(state_changes, response_to_subsystem(res))
                     /\ ConnectionNext
                     /\ ConnectionSend(idle)
                     /\ pc' = "loop"
                     /\ responder' = responder
                     /\ MuxGoesOn(sent, commands)
                     /\ fatal' = fatal
                ELSE /\ state_changes' =
                          SendStateChanges(state_changes,
                                           response_to_subsystem(res) \o <<ErrItem>>)
                     /\ lastWrite' = idle
                     /\ MuxExit(sent, {}, commands, "error")
                     /\ fatal' = TRUE
    /\ pending' = AwaitingResponse(TRUE)
    /\ UNCHANGED <<loop_state, closed, subscribed, write_ok, wrote, prevWrite, takenIn,
                   cancelFrame, preEmitted>>

\* LoopState::Idling, Either::Right. futures::future::select polls its first
\* argument, connection.next(), first and commands.next() only when the
\* transport has nothing ready. commands.next() yields None once every Sender
\* is gone and the channel is empty.
IdlingCommand ==
    /\ pc = "loop"
    /\ loop_state = "Idling"
    /\ inbox = <<>>
    /\ \/ /\ commands = <<>>
          /\ closed
          /\ state_changes' = SendStateChanges(state_changes, ChannelClosedItems)
          /\ MuxExit(sent, {}, commands, "closed")
          /\ UNCHANGED <<lastWrite, fatal, takenIn>>
       \/ /\ commands # <<>>
          /\ LET s == Head(commands) IN
              /\ takenIn' = [takenIn EXCEPT ![s] = "Idling"]
              /\ IF write_ok
                 THEN /\ ConnectionSend(cancel_idle)
                      /\ pc' = AfterCancelIdle
                      /\ responder' = s
                      /\ MuxGoesOn(sent, Tail(commands))
                      /\ UNCHANGED <<inbox, fatal>>
                 ELSE /\ lastWrite' = cancel_idle
                      /\ MuxExit(ResponderSend(sent, s, CodecError), {}, Tail(commands),
                                 "error")
                      /\ fatal' = TRUE
              /\ UNCHANGED state_changes
    /\ pending' = AwaitingResponse(FALSE)
    /\ UNCHANGED <<loop_state, closed, subscribed, write_ok,
                   wrote, prevWrite, cancelFrame, preEmitted>>

\* "Response to CANCEL_IDLE above": the one frame read after `noidle`.
CancelIdleResponse ==
    /\ pc = "cancel_idle"
    /\ inbox # <<>>
    /\ LET res == Head(inbox) IN
        CASE res.kind = "eof" ->
                /\ MuxExit(sent, {responder}, commands, "eof")
                /\ UNCHANGED <<state_changes, fatal, cancelFrame, preEmitted>>
          [] res.kind = "err" ->
                /\ MuxExit(ResponderSend(sent, responder, CodecError), {}, commands,
                           "error")
                /\ fatal' = TRUE
                /\ UNCHANGED <<state_changes, cancelFrame, preEmitted>>
          [] LeavesOnFailedNotification(response_to_subsystem(res)) ->
                /\ MuxExit(sent, {responder}, commands, "error")
                /\ UNCHANGED <<state_changes, fatal, cancelFrame, preEmitted>>
          [] OTHER ->
                /\ state_changes' =
                       SendStateChanges(state_changes, response_to_subsystem(res))
                /\ cancelFrame' = res.changed
                /\ preEmitted' = response_to_subsystem(res)
                /\ ConnectionNext
                /\ pc' = "send_command"
                /\ responder' = responder
                /\ MuxGoesOn(sent, commands)
                /\ UNCHANGED <<wire, fatal>>
    /\ pending' = AwaitingResponse(TRUE)
    /\ UNCHANGED <<loop_state, closed, subscribed, write_ok, lastWrite, wrote, prevWrite,
                   takenIn>>

\* "Actually send the command" after the idle was canceled.
SendCommand ==
    /\ pc = "send_command"
    /\ IF write_ok
       THEN /\ ConnectionSendAll(PreemptingCommandWrites(responder))
            /\ loop_state' = "WaitingForCommandReply"
            /\ pc' = "loop"
            /\ responder' = responder
            /\ wrote' = [wrote EXCEPT ![responder] =
                            @ + TimesWritten(PreemptingCommandWrites(responder), responder)]
            /\ prevWrite' = [prevWrite EXCEPT ![responder] =
                                WrittenBefore(PreemptingCommandWrites(responder), responder)]
            /\ MuxGoesOn(sent, commands)
            /\ UNCHANGED <<inbox, fatal>>
       ELSE /\ lastWrite' = Command(responder)
            /\ loop_state' = loop_state
            /\ MuxExit(ResponderSend(sent, responder, CodecError), {}, commands, "error")
            /\ fatal' = TRUE
            /\ UNCHANGED <<wrote, prevWrite>>
    /\ cancelFrame' = <<>>
    /\ preEmitted' = <<>>
    /\ pending' = AwaitingResponse(FALSE)
    /\ UNCHANGED <<closed, state_changes, subscribed, write_ok, takenIn>>

\* LoopState::WaitingForCommandReply(responder)
CommandReply ==
    /\ pc = "loop"
    /\ loop_state = "WaitingForCommandReply"
    /\ inbox # <<>>
    /\ LET res == Head(inbox)
           replied == ResponderSend(sent, responder, ReplyValue(res))
       IN
        IF ExitsOnResponse(res)
        THEN /\ MuxExit(sent, {responder}, commands, "eof")
             /\ UNCHANGED <<loop_state, state_changes, lastWrite, fatal, wrote, prevWrite,
                            takenIn>>
        ELSE CASE LeavesOnFailedSend(responder) ->
                    /\ MuxExit(replied, {}, commands, "error")
                    /\ UNCHANGED <<loop_state, state_changes, lastWrite, fatal, wrote,
                                   prevWrite, takenIn>>
               [] try_recv = "Ok" ->
                    LET s == Head(commands) IN
                    /\ takenIn' = [takenIn EXCEPT ![s] = "WaitingForCommandReply"]
                    /\ IF write_ok
                       THEN /\ ConnectionNext
                            /\ ConnectionSendAll(NextCommandWrites(s))
                            /\ responder' = s
                            /\ pc' = "loop"
                            /\ MuxGoesOn(replied, Tail(commands))
                            /\ wrote' = [wrote EXCEPT ![s] =
                                            @ + TimesWritten(NextCommandWrites(s), s)]
                            /\ prevWrite' = [prevWrite EXCEPT ![s] =
                                                WrittenBefore(NextCommandWrites(s), s)]
                            /\ fatal' = (fatal \/ res.kind = "err")
                       ELSE /\ lastWrite' = Command(s)
                            /\ MuxExit(ResponderSend(replied,
                                           FailedSendResponder(responder, s), CodecError),
                                       {}, Tail(commands), "error")
                            /\ fatal' = TRUE
                            /\ UNCHANGED <<wrote, prevWrite>>
                    /\ UNCHANGED <<loop_state, state_changes>>
               [] try_recv = "Empty" ->
                    /\ loop_state' = StateAfterEmpty
                    /\ IF write_ok
                       THEN /\ ConnectionNext
                            /\ ConnectionSend(idle)
                            /\ responder' = 0
                            /\ pc' = "loop"
                            /\ MuxGoesOn(replied, commands)
                            /\ fatal' = (fatal \/ res.kind = "err")
                            /\ state_changes' = state_changes
                       ELSE /\ lastWrite' = idle
                            /\ state_changes' = SendStateChanges(state_changes, <<ErrItem>>)
                            /\ MuxExit(replied, {}, commands, "error")
                            /\ fatal' = TRUE
                    /\ UNCHANGED <<wrote, prevWrite, takenIn>>
               [] OTHER ->
                    /\ MuxExit(replied, {}, commands, "closed")
                    /\ fatal' = (fatal \/ res.kind = "err")
                    /\ UNCHANGED <<loop_state, state_changes, lastWrite, wrote, prevWrite,
                                   takenIn>>
    /\ pending' = AwaitingResponse(TRUE)
    /\ UNCHANGED <<closed, subscribed, write_ok, cancelFrame, preEmitted>>

----------------------------------------------------------------------------
\* Client handles and the callers' futures

\* do_send: commands_sender.send((commands, tx)).await, then rx.await.
\* Submissions enter the channel in the order of their numbers. send fails
\* once the Receiver is gone and waits while the channel is full.
Submit(s) ==
    /\ caller[s] = "new"
    /\ \A r \in Callers : r < s => caller[r] # "new"
    /\ ~closed
    /\ IF pc = "exited"
       THEN /\ caller' = [caller EXCEPT ![s] = "closed"]
            /\ UNCHANGED commands
       ELSE /\ HasCapacity(commands)
            /\ commands' = ChannelSend(commands, s)
            /\ caller' = [caller EXCEPT ![s] = "waiting"]
    /\ UNCHANGED <<muxVars, closed, state_changes, subscribed, wire, inbox, write_ok, srvVars, sent, dropped, histVars, lastWrite, fatal, callVars, rxVars, convVars>>

\* The caller drops the future of do_send while it awaits the responder.
DropFuture(s) ==
    /\ caller[s] = "waiting"
    /\ caller' = [caller EXCEPT ![s] = "cancelled"]
    /\ UNCHANGED <<muxVars, commands, closed, state_changes, subscribed, wire, inbox,
                   write_ok, srvVars, sent, dropped, histVars, lastWrite, fatal, callVars, rxVars, convVars>>

\* The last Client is dropped. A pending do_send owns a clone of the Sender,
\* so the channel closes only when no future is pending.
DropClient ==
    /\ ~closed
    /\ pc # "exited"
    /\ \A s \in Callers : caller[s] # "waiting"
    /\ closed' = TRUE
    /\ UNCHANGED <<muxVars, commands, state_changes, subscribed, wire, inbox, write_ok, srvVars, caller, sent, dropped, histVars, lastWrite, fatal, callVars, rxVars, convVars>>

\* StateChanges: the subscriber takes the next item, or is dropped.
SubscriberNext ==
    /\ subscribed
    /\ state_changes # <<>>
    /\ state_changes' = Tail(state_changes)
    /\ UNCHANGED <<muxVars, commands, closed, subscribed, wire, inbox, write_ok, srvVars, caller, sent, dropped, histVars, lastWrite, fatal, callVars, rxVars, convVars>>

DropSubscriber ==
    /\ subscribed
    /\ pc # "exited"
    /\ subscribed' = FALSE
    /\ state_changes' = <<>>
    /\ UNCHANGED <<muxVars, commands, closed, wire, inbox, write_ok, srvVars,
                   caller, sent, dropped, histVars, lastWrite, fatal, callVars, rxVars, convVars>>

----------------------------------------------------------------------------
\* The MPD server and the transport

\* A subsystem changes on the server.
ServerChange(sub) ==
    /\ srvUp
    /\ pc # "exited"
    /\ sub \notin srvChanged
    /\ Len(state_changes) < MaxBacklog
    /\ srvChanged' = srvChanged \cup {sub}
    /\ UNCHANGED <<muxVars, commands, closed, state_changes, subscribed, wire, inbox,
                   write_ok, srvIdle, srvUp, caller, sent, dropped, histVars,
                   lastWrite, fatal, callVars, rxVars, convVars>>

\* The server ends an `idle` on its own: one frame with every changed subsystem.
ServerNotify ==
    /\ srvUp
    /\ pc # "exited"
    /\ srvIdle
    /\ srvChanged # {}
    /\ inbox' = Append(inbox, OkResponse(ChangedFields(srvChanged), 0))
    /\ srvIdle' = FALSE
    /\ srvChanged' = {}
    /\ UNCHANGED <<muxVars, commands, closed, state_changes, subscribed, wire, write_ok, srvUp, caller, sent, dropped, histVars, lastWrite, fatal, callVars, rxVars, convVars>>

\* The server reads the next request. `idle` starts an idle, or is refused
\* with an ACK (only while nothing waits in the state-changes channel);
\* `noidle` ends a running idle with one frame and is ignored otherwise; a
\* command is answered with one response (OK or ACK), or with bytes the codec
\* rejects; anything but `noidle` during an idle makes the server close the
\* connection.
ServerRead ==
    /\ srvUp
    /\ pc # "exited"
    /\ wire # <<>>
    /\ wire' = Tail(wire)
    /\ LET req == Head(wire) IN
        CASE req.op = "noidle" ->
               IF srvIdle
               THEN /\ inbox' = Append(inbox, OkResponse(ChangedFields(srvChanged), 0))
                    /\ srvIdle' = FALSE
                    /\ srvChanged' = {}
                    /\ UNCHANGED srvUp
               ELSE UNCHANGED <<inbox, srvVars>>
          [] srvIdle ->
               /\ inbox' = Append(inbox, Eof)
               /\ srvUp' = FALSE
               /\ UNCHANGED <<srvIdle, srvChanged>>
          [] req.op = "idle" ->
               \/ /\ srvIdle' = TRUE
                  /\ UNCHANGED <<inbox, srvChanged, srvUp>>
               \/ /\ state_changes = <<>>
                  /\ inbox' = Append(inbox, AckResponse(0))
                  /\ UNCHANGED srvVars
          [] OTHER ->
               /\ \E res \in {OkResponse(<<>>, req.id), AckResponse(req.id),
                              MalformedResponse(req.id)} :
                      inbox' = Append(inbox, res)
               /\ UNCHANGED srvVars
    /\ UNCHANGED <<muxVars, commands, closed, state_changes, subscribed, write_ok, caller, sent, dropped, histVars, lastWrite, fatal, callVars, rxVars, convVars>>

\* The connection is closed: connection.next() yields None.
TransportEof ==
    /\ pc # "exited"
    /\ Eof \notin Range(inbox)
    /\ srvUp' = FALSE
    /\ inbox' = Append(inbox, Eof)
    /\ UNCHANGED <<muxVars, commands, closed, state_changes, subscribed, wire, write_ok,
                   srvIdle, srvChanged, caller, sent, dropped, histVars, lastWrite, fatal, callVars, rxVars, convVars>>

\* An I/O error on the read side: connection.next() yields Some(Err(e)); no
\* further frame arrives on this connection, which then ends.
TransportReadError ==
    /\ srvUp
    /\ pc # "exited"
    /\ srvUp' = FALSE
    /\ inbox' = inbox \o <<CodecError, Eof>>
    /\ UNCHANGED <<muxVars, commands, closed, state_changes, subscribed, wire, write_ok,
                   srvIdle, srvChanged, caller, sent, dropped, histVars, lastWrite, fatal, callVars, rxVars, convVars>>

\* From now on connection.send fails.
TransportWriteError ==
    /\ write_ok
    /\ pc # "exited"
    /\ write_ok' = FALSE
    /\ UNCHANGED <<muxVars, commands, closed, state_changes, subscribed, wire, inbox,
                   srvVars, caller, sent, dropped, histVars, lastWrite, fatal, callVars, rxVars, convVars>>

Next ==
    \/ IdlingResponse
    \/ IdlingCommand
    \/ CancelIdleResponse
    \/ SendCommand
    \/ CommandReply
    \/ \E s \in Callers : Submit(s)
    \/ \E s \in Callers : DropFuture(s)
    \/ DropClient
    \/ SubscriberNext
    \/ DropSubscriber
    \/ \E sub \in Subsystems : ServerChange(sub)
    \/ ServerNotify
    \/ ServerRead
    \/ TransportEof
    \/ TransportReadError
    \/ TransportWriteError

Spec == Init /\ [][Next]_vars

\* The run loop, the server and the subscriber keep running; select and the
\* task scheduler give every arm of the loop its turn while it stays ready.
FairSpec ==
    /\ Spec
    /\ WF_vars(IdlingResponse)
    /\ WF_vars(IdlingCommand)
    /\ WF_vars(CancelIdleResponse)
    /\ WF_vars(SendCommand)
    /\ WF_vars(CommandReply)
    /\ WF_vars(ServerRead)
    /\ WF_vars(ServerNotify)
    /\ WF_vars(SubscriberNext)

----------------------------------------------------------------------------
\* Steps of the run loop, as seen from outside

\* run_loop reads the head of inbox while waiting for a command's reply.
ReplyRead ==
    /\ pc = "loop"
    /\ loop_state = "WaitingForCommandReply"
    /\ inbox # <<>>
    /\ inbox' = Tail(inbox) \/ pc' = "exited"

\* run_loop reads the head of inbox as the frame that ends an idle: in
\* Idling, or as the answer to `noidle`.
IdleFrameRead ==
    /\ (pc = "loop" /\ loop_state = "Idling") \/ pc = "cancel_idle"
    /\ inbox # <<>>
    /\ inbox' = Tail(inbox) \/ pc' = "exited"

Settled(s) == sent[s] # <<>> \/ dropped[s]

----------------------------------------------------------------------------
\* C1: no responder ever carries two values, and no responder is both
\* sent on and dropped.
C1_AtMostOneReply ==
    \A s \in Subs : Len(sent[s]) <= 1 /\ ~(sent[s] # <<>> /\ dropped[s])

\* One submission was replied to and another had its responder dropped.
C1_Witness == sent[1] # <<>> /\ dropped[2]

\* C2: under fair scheduling and an answering server, every submission
\* accepted into the command channel eventually gets a reply or has its
\* responder dropped.
C2_EverySubmissionSettles ==
    \A s \in Subs : (s \in Range(commands)) ~> Settled(s)

\* C3: when the command is about to be written after `noidle`, every change
\* carried by the frame read in between has been sent to state_changes.
C3_ChangesSentBeforeCommand ==
    pc = "send_command" =>
        \A i \in 1..Len(cancelFrame) : cancelFrame[i] \in Range(preEmitted)

\* C4: reading a frame that ends an idle appends one item per `changed`
\* field of the frame to state_changes (while a subscriber exists).
C4_EveryChangeEmitted ==
    [][(IdleFrameRead /\ Head(inbox).kind = "ok" /\ subscribed) =>
          LET n == Len(state_changes)
              c == Head(inbox).changed
          IN /\ Len(state_changes') >= n + Len(c)
             /\ SubSeq(state_changes', 1, n + Len(c)) = state_changes \o c]_vars

\* C5: a submission whose caller got a successful reply had its command
\* written exactly once, right after a `noidle` if and only if it was taken
\* from the channel in Idling.
C5_WrittenOnce ==
    \A s \in Subs :
        (caller[s] = "replied" /\ sent[s][1].kind = "ok") =>
            /\ wrote[s] = 1
            /\ (prevWrite[s] = "noidle") <=> (takenIn[s] = "Idling")

\* Both ways of taking a submission ended in a successful reply.
C5_Witness ==
    /\ caller[1] = "replied" /\ sent[1][1].kind = "ok" /\ takenIn[1] = "Idling"
    /\ caller[2] = "replied" /\ sent[2][1].kind = "ok"
    /\ takenIn[2] = "WaitingForCommandReply"

\* C6 as stated: after a reply was read and delivered with no submission
\* queued, exactly one `idle` is written and the loop state becomes Idling.
C6_IdleWheneverNothingQueued ==
    [][(ReplyRead /\ Head(inbox).kind \in {"ok", "ack"} /\ commands = <<>> /\ write_ok) =>
          /\ wire' = Append(wire, idle)
          /\ loop_state' = "Idling"
          /\ pc' = "loop"]_vars

\* C6 amended: the same, when moreover a Client handle still exists (try_recv
\* reports Empty rather than Closed).
C6_IdleWhenEmptyAndOpen ==
    [][(ReplyRead /\ Head(inbox).kind \in {"ok", "ack"} /\ commands = <<>> /\ ~closed
            /\ write_ok) =>
          /\ wire' = Append(wire, idle)
          /\ loop_state' = "Idling"
          /\ pc' = "loop"]_vars

\* The loop is back in Idling after a delivered reply, with `idle` written last.
C6_Witness ==
    /\ pc = "loop" /\ loop_state = "Idling" /\ lastWrite = idle /\ ~closed
    /\ \E s \in Subs : caller[s] = "replied" /\ sent[s][1].kind = "ok"

\* C7: when a reply was delivered and a submission is queued, the only write
\* is that submission's command (no `idle`, no `noidle`), and, the write
\* succeeding, the loop waits for its reply in WaitingForCommandReply.
C7_Batching ==
    [][(ReplyRead /\ Head(inbox).kind # "eof" /\ commands # <<>> /\ write_ok) =>
          /\ wire' = Append(wire, Command(Head(commands)))
          /\ loop_state' = "WaitingForCommandReply"
          /\ responder' = Head(commands)
          /\ pc' = "loop"
          /\ sent'[responder] # <<>>]_vars

\* A command was written directly after the previous command.
C7_Witness ==
    \E s \in Subs :
        /\ takenIn[s] = "WaitingForCommandReply"
        /\ wrote[s] = 1
        /\ prevWrite[s] = "cmd"
        /\ responder = s

\* C8: the step in which the transport yields an error, or a write fails,
\* ends the run loop; after a read error nothing is written and no
\* submission is taken.
C8_ErrorsAreFatal ==
    [][(~fatal /\ fatal') =>
          /\ pc' = "exited"
          /\ (inbox # <<>> /\ Head(inbox).kind = "err") =>
                (lastWrite' = lastWrite /\ takenIn' = takenIn)]_vars

\* C9: when the run loop exits on a read or write error, every submission
\* taken and not yet answered gets a value on its responder (an Err, unless
\* it is the reply just read), and state_changes gets an Err if the loop
\* state was Idling.
C9_ErrorRouting ==
    [][(pc # "exited" /\ pc' = "exited" /\ ~fatal /\ fatal') =>
          /\ \A s \in Subs :
                (takenIn'[s] # "none" /\ ~Settled(s)) =>
                    /\ sent'[s] # <<>>
                    /\ \/ sent'[s][1].kind = "err"
                       \/ s = responder /\ loop_state = "WaitingForCommandReply"
          /\ (loop_state = "Idling" /\ subscribed) =>
                /\ state_changes' # <<>>
                /\ state_changes'[Len(state_changes')] = ErrItem]_vars

\* C10: an ACK read as a command's reply is delivered on the responder and
\* the loop goes on: to Idling with `idle` when nothing is queued, to the
\* next command otherwise (the write succeeding and a Client still existing,
\* as after an OK response).
C10_AckNotFatal ==
    [][(ReplyRead /\ Head(inbox).kind = "ack" /\ write_ok /\ try_recv # "Closed") =>
          /\ sent'[responder] = <<Head(inbox)>>
          /\ pc' = "loop"
          /\ IF commands = <<>>
             THEN loop_state' = "Idling" /\ wire' = Append(wire, idle)
             ELSE /\ loop_state' = "WaitingForCommandReply"
                  /\ responder' = Head(commands)
                  /\ wire' = Append(wire, Command(Head(commands)))]_vars

\* A submission was answered with ACK and a later one was served.
C10_Witness ==
    /\ sent[1] # <<>> /\ sent[1][1].kind = "ack"
    /\ sent[2] # <<>> /\ sent[2][1].kind = "ok"
    /\ pc = "loop"

----------------------------------------------------------------------------
\* Every Client is gone while run_loop idles with nothing queued.
DroppedWhileIdling ==
    closed /\ pc = "loop" /\ loop_state = "Idling" /\ commands = <<>>

\* The step writes nothing to the transport.
NothingWritten == Len(wire') <= Len(wire)

\* The step sends no Err into state_changes.
NoErrSent ==
    ~(/\ Len(state_changes') > Len(state_changes)
      /\ state_changes'[Len(state_changes')] = ErrItem)

\* The transport works: writes succeed and what is readable is a response.
TransportHealthy ==
    write_ok /\ \A i \in 1..Len(inbox) : inbox[i].kind \in {"ok", "ack"}

\* C11 as stated: once the last Client is dropped while the loop idles with
\* nothing queued, nothing more is written to the transport and no Err is
\* sent into state_changes, and when the loop has ended the subscriber's
\* sequence ends (read for a transport that works and yields state-change
\* frames only).
C11_CleanExitOnceDropped ==
    [][(DroppedWhileIdling /\ TransportHealthy
            /\ \A i \in 1..Len(inbox) : inbox[i].kind = "ok") =>
          /\ NothingWritten
          /\ NoErrSent
          /\ (pc' = "exited" /\ state_changes' = <<>>) => StateChangesPoll' = "None"]_vars

\* C11 amended: the same, from the moment the transport has nothing ready to
\* read; the loop's next step is then to end, and the subscriber's sequence
\* ends once it is drained.
C11_CleanExitWhenTransportQuiet ==
    [][(DroppedWhileIdling /\ inbox = <<>>) =>
          /\ NothingWritten
          /\ NoErrSent
          /\ pc' \in {"loop", "exited"}
          /\ pc' = "exited" =>
                /\ exitedOn' = "closed"
                /\ state_changes' = state_changes
                /\ lastWrite' = lastWrite
                /\ state_changes' = <<>> => StateChangesPoll' = "None"]_vars

\* run_loop ended because the last Client was dropped, and the subscriber,
\* having drained what was queued, finds the end of its sequence.
C11_Witness ==
    /\ exitedOn = "closed"
    /\ loop_state = "Idling"
    /\ subscribed
    /\ StateChangesPoll = "None"
    /\ \A s \in Subs : caller[s] = "new"

----------------------------------------------------------------------------
\* Every Client is gone while run_loop waits for a command's reply.
DroppedWhileWaiting ==
    closed /\ pc = "loop" /\ loop_state = "WaitingForCommandReply"

\* C12 as stated: when every Client is gone while the loop waits for a reply,
\* the loop reads the response, sends it on the pending responder and then
\* ends, having written nothing after the reply.
C12_ReplyThenExit ==
    [][(DroppedWhileWaiting /\ TransportHealthy) =>
          /\ pc' = "exited" => inbox # <<>>
          /\ ReplyRead =>
                /\ sent'[responder] = <<ReplyValue(Head(inbox))>>
                /\ pc' = "exited"
                /\ NothingWritten
                /\ lastWrite' = lastWrite]_vars

\* C12 amended: the same when no submission is queued at the time the reply
\* is read.
C12_ReplyThenExitWhenNothingQueued ==
    [][(DroppedWhileWaiting /\ commands = <<>>) =>
          /\ pc' = "exited" => inbox # <<>>
          /\ (ReplyRead /\ Head(inbox).kind # "eof") =>
                /\ sent'[responder] = <<ReplyValue(Head(inbox))>>
                /\ pc' = "exited"
                /\ exitedOn' = "closed"
                /\ NothingWritten
                /\ lastWrite' = lastWrite
                /\ state_changes' = state_changes]_vars

\* run_loop ended on the closed channel after sending the reply on the
\* responder of a caller that had gone.
C12_Witness ==
    /\ exitedOn = "closed"
    /\ loop_state = "WaitingForCommandReply"
    /\ \E s \in Subs : caller[s] = "cancelled" /\ Len(sent[s]) = 1 /\ sent[s][1].kind = "ok"

----------------------------------------------------------------------------
\* The step writes the command of submission s to the transport.
CommandWritten(s) == wrote'[s] > wrote[s]

\* C13: commands are written in the order their submissions entered the
\* channel; when a command is written every earlier submission has been
\* written and answered; and the replies are delivered in the order of the
\* writes, each to the submission whose command it answers.
C13_SubmissionOrder ==
    [][/\ \A s \in Subs :
             CommandWritten(s) =>
                \A r \in Subs : r < s => (wrote[r] = 1 /\ sent'[r] # <<>>)
       /\ (ReplyRead /\ Head(inbox).kind # "eof") =>
             /\ wrote[responder] = 1
             /\ sent'[responder][1] = ReplyValue(Head(inbox))
             /\ Head(inbox).kind \in {"ok", "ack"} => Head(inbox).re = responder
             /\ \A r \in Subs : r < responder => sent[r] # <<>>
             /\ \A r \in Subs : r > responder => wrote[r] = 0 /\ sent[r] = <<>>]_vars

\* Two submissions were served one after the other and the loop idles again.
C13_Witness ==
    /\ pc = "loop" /\ loop_state = "Idling"
    /\ \A s \in Subs :
          /\ wrote[s] = 1
          /\ Len(sent[s]) = 1
          /\ sent[s][1].kind \in {"ok", "ack"}
          /\ sent[s][1].re = s

----------------------------------------------------------------------------
\* C14: a submission whose caller dropped its future is served like any
\* other: taken from the channel, its command written, its response read and
\* sent on the responder; then the loop goes on with the next queued command
\* or with `idle` (or ends when every Client is gone), writes succeeding.
C14_DroppedFutureStillServed ==
    [][\A s \in Subs :
          (caller[s] = "cancelled" /\ write_ok) =>
             /\ (takenIn'[s] # takenIn[s]) =>
                   /\ s = Head(commands)
                   /\ responder' = s
                   /\ pc' # "exited"
                   /\ wire' = Append(wire, IF loop_state = "Idling"
                                           THEN cancel_idle ELSE Command(s))
             /\ (pc = "send_command" /\ responder = s /\ pc' # pc) =>
                   /\ wire' = Append(wire, Command(s))
                   /\ loop_state' = "WaitingForCommandReply"
                   /\ pc' = "loop"
                   /\ responder' = s
             /\ (ReplyRead /\ responder = s /\ Head(inbox).kind \in {"ok", "ack"}) =>
                   /\ sent'[s] = <<Head(inbox)>>
                   /\ caller'[s] = "cancelled"
                   /\ CASE try_recv = "Ok" ->
                              /\ wire' = Append(wire, Command(Head(commands)))
                              /\ loop_state' = "WaitingForCommandReply"
                              /\ pc' = "loop"
                        [] try_recv = "Empty" ->
                              /\ wire' = Append(wire, idle)
                              /\ loop_state' = "Idling"
                              /\ pc' = "loop"
                        [] OTHER -> exitedOn' = "closed"]_vars

\* The command of a caller that dropped its future while waiting was written
\* and answered all the same, and the loop idles again.
C14_Witness ==
    /\ pc = "loop" /\ loop_state = "Idling" /\ lastWrite = idle /\ ~closed
    /\ \E s \in Subs :
          /\ caller[s] = "cancelled"
          /\ wrote[s] = 1
          /\ Len(sent[s]) = 1 /\ sent[s][1].kind = "ok"

----------------------------------------------------------------------------
\* C15: run_loop ends only on a closed command channel, the end of the
\* transport or a read or write error, never because of state_changes; it is
\* never kept from handling what the transport yields, whatever the
\* subscriber has left queued; without a subscriber the sends are no-ops; and
\* a frame that ends an idle is followed by the same writes whether or not a
\* subscriber exists and whatever it has left queued.
C15_SubscriberCannotBlock ==
    /\ [](/\ (pc = "loop" /\ loop_state = "Idling" /\ inbox # <<>>) =>
                ENABLED IdlingResponse
          /\ (pc = "cancel_idle" /\ inbox # <<>>) => ENABLED CancelIdleResponse
          /\ (pc = "loop" /\ loop_state = "WaitingForCommandReply" /\ inbox # <<>>) =>
                ENABLED CommandReply)
    /\ [][/\ (pc # "exited" /\ pc' = "exited") =>
                \/ closed /\ commands = <<>>
                \/ ~write_ok
                \/ inbox # <<>> /\ Head(inbox).kind \in {"eof", "err"}
          /\ ~subscribed => state_changes' = <<>>
          /\ (IdleFrameRead /\ Head(inbox).kind \in {"ok", "ack"} /\ write_ok) =>
                /\ pc = "loop" => (wire' = Append(wire, idle) /\ pc' = "loop")
                /\ pc = "cancel_idle" => (wire' = wire /\ pc' = "send_command")]_vars

\* With the subscriber gone, the frame read after `noidle` carried a change
\* and the loop is about to write the command.
C15_Witness ==
    /\ ~subscribed
    /\ pc = "send_command"
    /\ cancelFrame # <<>>
    /\ state_changes = <<>>

----------------------------------------------------------------------------
\* Client::command_list and Client::raw_command_list, one call

\* The commands a list is made of (tests::command_list).
CommandNames == {"foo", "bar"}
\* The MPD errors a command may be answered with.
MpdErrors == {"ack2", "ack50"}

\* The inputs: the lists of at most MaxList commands.
Lists == UNION {[1..n -> CommandNames] : n \in 0..MaxList}

\* The frame answering the i-th command of a list; typed: whether
\* Response::convert accepts it.
Frame(c, i, v) == [cmd |-> c, index |-> i, typed |-> v]
\* The items of a RawResponse: Ok(frame) and Err(error).
FrameOk(f) == [kind |-> "Ok", frame |-> f]
FrameErr(e) == [kind |-> "Err", error |-> e]

\* The responses the server gives to the list l: a frame for each command,
\* or the frames of the first k commands and the error of the next one.
Responses(l) ==
    LET Oks(k, v) == [i \in 1..k |-> FrameOk(Frame(l[i], i, v[i]))] IN
    UNION {{Oks(Len(l), v)} \cup
           {Oks(k, v) \o <<FrameErr(e)>> : k \in 0..(Len(l) - 1), e \in MpdErrors}
           : v \in [1..Len(l) -> BOOLEAN]}

\* What do_send returns: Err(ConnectionClosed) or Ok(response).
Replies(l) ==
    {[closed |-> TRUE, items |-> <<>>]} \cup
    {[closed |-> FALSE, items |-> r] : r \in Responses(l)}

\* The values a call returns.
RetOk(v) == [kind |-> "Ok", value |-> v]
ErrorResponse(e, fs) == [kind |-> "ErrorResponse", error |-> e, succesful_frames |-> fs]
ConnectionClosed == [kind |-> "ConnectionClosed"]
TypedResponse(f) == [kind |-> "TypedResponse", frame |-> f]

\* A caller is about to call command_list with any list, or raw_command_list
\* with a RawCommandList, which holds at least one command.
CallInit ==
    /\ Connected
    /\ api \in {"command_list", "raw_command_list"}
    /\ list \in Lists
    /\ api = "raw_command_list" => list # <<>>
    /\ reply \in Replies(list)
    /\ list = <<>> => reply = [closed |-> FALSE, items |-> <<>>]
    /\ call_pc = "start"
    /\ iter = <<>>
    /\ frames = <<>>
    /\ ret = [kind |-> "none"]
    /\ NoConversion

\* `match commands.next() { .. None => return Ok(Vec::new()) }`
NeverEmpty(l) == FALSE
EmptyInput(l) == l = <<>>

\* frames.push(f)
PushFront(fs, f) == <<f>> \o fs
Push(fs, f) == Append(fs, f)

\* command_list up to the call of raw_command_list.
CommandList ==
    /\ api = "command_list"
    /\ call_pc = "start"
    /\ IF EmptyInput(list)
       THEN /\ ret' = RetOk(<<>>)
            /\ call_pc' = "returned"
       ELSE /\ call_pc' = "do_send"
            /\ UNCHANGED ret
    /\ UNCHANGED <<connVars, convVars, api, list, reply, iter, frames>>

\* raw_command_list is called directly.
RawCommandList ==
    /\ api = "raw_command_list"
    /\ call_pc = "start"
    /\ call_pc' = "do_send"
    /\ UNCHANGED <<connVars, convVars, api, list, reply, iter, frames, ret>>

\* `let res = self.do_send(commands).await?`: the list is submitted as one
\* submission; the call returns the error or goes on with the response.
DoSend ==
    /\ call_pc = "do_send"
    /\ commands' = ChannelSend(commands, 1)
    /\ IF reply.closed
       THEN /\ ret' = ConnectionClosed
            /\ call_pc' = "returned"
            /\ UNCHANGED <<iter, frames>>
       ELSE /\ iter' = reply.items
            /\ frames' = <<>>
            /\ call_pc' = "collect"
            /\ UNCHANGED ret
    /\ UNCHANGED <<muxVars, closed, state_changes, subscribed, wire, inbox, write_ok,
                   srvVars, caller, sent, dropped, histVars, lastWrite, fatal,
                   rxVars, convVars, api, list, reply>>

\* One turn of `for frame in res`, or its end.
Collect ==
    /\ call_pc = "collect"
    /\ IF iter = <<>>
       THEN /\ IF api = "raw_command_list"
               THEN ret' = RetOk(frames) /\ call_pc' = "returned"
               ELSE ret' = ret /\ call_pc' = "convert"
            /\ UNCHANGED <<iter, frames>>
       ELSE IF Head(iter).kind = "Ok"
       THEN /\ frames' = Push(frames, Head(iter).frame)
            /\ iter' = Tail(iter)
            /\ UNCHANGED <<call_pc, ret>>
       ELSE /\ ret' = ErrorResponse(Head(iter).error, frames)
            /\ call_pc' = "returned"
            /\ UNCHANGED <<iter, frames>>
    /\ UNCHANGED <<connVars, convVars, api, list, reply>>

\* frames.into_iter().map(Response::convert).collect::<Result<_, _>>(): the
\* converted frames, or the error of the first frame that does not convert.
Convert ==
    /\ call_pc = "convert"
    /\ LET bad == {i \in 1..Len(frames) : ~frames[i].typed} IN
        ret' = IF bad = {}
               THEN RetOk(frames)
               ELSE TypedResponse(frames[CHOOSE i \in bad : \A j \in bad : i <= j])
    /\ call_pc' = "returned"
    /\ UNCHANGED <<connVars, convVars, api, list, reply, iter, frames>>

CallNext ==
    \/ CommandList
    \/ RawCommandList
    \/ DoSend
    \/ Collect
    \/ Convert

CallSpec == CallInit /\ [][CallNext]_vars

----------------------------------------------------------------------------
\* C16: raw_command_list, given a response of k Ok frames followed by an Err,
\* returns ErrorResponse with that error and exactly those k frames in their
\* order; given Ok frames only, it returns them all, one per command, in order.
C16_ErrorKeepsPrefix ==
    (api = "raw_command_list" /\ call_pc = "returned" /\ ~reply.closed) =>
        LET items == reply.items
            n == Len(items)
        IN IF n > 0 /\ items[n].kind = "Err"
           THEN ret = ErrorResponse(items[n].error, [i \in 1..(n - 1) |-> items[i].frame])
           ELSE /\ ret = RetOk([i \in 1..n |-> items[i].frame])
                /\ n = Len(list)
                /\ \A i \in 1..n : ret.value[i].index = i /\ ret.value[i].cmd = list[i]

\* raw_command_list returned an error that carries two frames.
C16_Witness ==
    /\ api = "raw_command_list"
    /\ call_pc = "returned"
    /\ ret.kind = "ErrorResponse"
    /\ Len(ret.succesful_frames) = 2
    /\ ret.succesful_frames[1].index = 1

\* C17: command_list with an empty input returns an empty result in its
\* first step and submits nothing: the command channel, the loop state and
\* the transport are as they were.
C17_EmptyListReturnsAtOnce ==
    [][/\ (api = "command_list" /\ call_pc = "start" /\ list = <<>>) =>
             /\ ret' = RetOk(<<>>)
             /\ call_pc' = "returned"
             /\ UNCHANGED connVars
       /\ (api = "command_list" /\ list = <<>>) =>
             /\ call_pc' \in {"start", "returned"}
             /\ commands' = <<>>
             /\ wire' = <<idle>>
             /\ loop_state' = "Idling"]_vars

\* command_list has returned the empty result for the empty input.
C17_Witness ==
    /\ api = "command_list"
    /\ list = <<>>
    /\ call_pc = "returned"
    /\ ret = RetOk(<<>>)
    /\ commands = <<>>

----------------------------------------------------------------------------
\* C18: once run_loop has ended no caller is left waiting: the submissions
\* that were still queued when it ended had their responder dropped unused
\* and their callers see ConnectionClosed, and so does every caller that
\* submits afterwards.
C18_ClosedAfterExit ==
    [][/\ pc' = "exited" =>
             /\ commands' = <<>>
             /\ \A s \in Subs : caller'[s] # "waiting"
       /\ (pc # "exited" /\ pc' = "exited") =>
             \A s \in Range(commands) :
                (takenIn'[s] = "none") =>
                    /\ dropped'[s]
                    /\ sent'[s] = <<>>
                    /\ caller[s] = "waiting" => caller'[s] = "closed"
       /\ pc = "exited" =>
             \A s \in Subs : caller'[s] # caller[s] => caller'[s] = "closed"]_vars

\* run_loop ended with a submission queued, and another caller submitted
\* afterwards: both see ConnectionClosed.
C18_Witness ==
    /\ pc = "exited"
    /\ \E s, r \in Subs :
          /\ caller[s] = "closed" /\ dropped[s] /\ takenIn[s] = "none"
          /\ caller[r] = "closed" /\ ~dropped[r]

----------------------------------------------------------------------------
\* C19: between two iterations of run_loop, in Idling exactly one `idle`
\* awaits its terminating frame and no other request awaits a response; in
\* WaitingForCommandReply(r) exactly the command submitted with r does.
C19_LoopStateInvariant ==
    pc = "loop" =>
        IF loop_state = "Idling"
        THEN pending = <<idle>>
        ELSE /\ responder \in Subs
             /\ takenIn[responder] # "none"
             /\ pending = <<Command(responder)>>

----------------------------------------------------------------------------
\* C20: when the response read in Idling is an ACK, which is no state-change
\* frame, an Err is sent into state_changes and run_loop ends without
\* writing `idle` again.
C20_UndecodableFrameIsFatal ==
    [][(IdleFrameRead /\ pc = "loop" /\ Head(inbox).kind = "ack") =>
          /\ subscribed =>
                /\ state_changes' # <<>>
                /\ state_changes'[Len(state_changes')] = ErrItem
          /\ pc' = "exited"
          /\ NothingWritten]_vars

----------------------------------------------------------------------------
\* C21: in Idling, when the transport has a frame ready and a submission is
\* queued at the same time, either of the two may be handled next: the loop
\* can take the frame and it can take the submission.
C21_UnbiasedSelect ==
    (pc = "loop" /\ loop_state = "Idling" /\ inbox # <<>> /\ commands # <<>>) =>
        /\ ENABLED IdlingResponse
        /\ ENABLED IdlingCommand

----------------------------------------------------------------------------
\* A transport that delivers a response in pieces (tests::incomplete_response)

\* The keys of the fields of the response to `hello`.
ResponseFields == <<"foo", "baz">>

\* A line of a response: a field line `KEY: VALUE`, or the line (`OK`, or
\* `ACK ..`) that ends the response res.
FieldLine(k) == [key |-> k, ends |-> FALSE, res |-> Eof]
EndLine(res) == [key |-> "", ends |-> TRUE, res |-> res]

\* The lines of the response res with the fields ks.
ResponseLines(ks, res) == [i \in 1..Len(ks) |-> FieldLine(ks[i])] \o <<EndLine(res)>>

\* The lines cut into chunks after the lines numbered in cuts.
Cut(lines, cuts) ==
    LET last == SelectSeq([i \in 1..Len(lines) |-> i],
                          LAMBDA i : i \in cuts \/ i = Len(lines))
    IN [j \in 1..Len(last) |->
           SubSeq(lines, IF j = 1 THEN 1 ELSE last[j - 1] + 1, last[j])]

\* The ways the transport hands the lines over in two or more reads with a
\* wait in between.
Chunkings(lines) ==
    {Cut(lines, cuts) : cuts \in (SUBSET (1..(Len(lines) - 1))) \ {{}}}

\* The codec's decode on the lines buffered so far: nothing while no line
\* ends a response; otherwise the response with the fields before that line,
\* the lines after it staying buffered.
DecodePartial(buf) ==
    IF buf = <<>> THEN [frames |-> <<>>, rest |-> <<>>]
    ELSE [frames |-> <<[OkResponse(<<>>, 0) EXCEPT
                          !.fields = [j \in 1..Len(buf) |-> buf[j].key]]>>,
          rest |-> <<>>]
Decode(buf) ==
    LET ends == {i \in 1..Len(buf) : buf[i].ends} IN
    IF ends = {} THEN [frames |-> <<>>, rest |-> buf]
    ELSE LET i == CHOOSE k \in ends : \A j \in ends : k <= j
             res == buf[i].res
         IN [frames |-> <<[res EXCEPT
                             !.fields = IF res.kind = "ok"
                                        THEN [j \in 1..(i - 1) |-> buf[j].key]
                                        ELSE <<>>]>>,
             rest |-> SubSeq(buf, i + 1, Len(buf))]

\* The server reads a command and answers it with a response (OK or ACK)
\* that has fields; the transport will hand it over in pieces.
ServerReadChunked ==
    /\ srvUp
    /\ pc # "exited"
    /\ wire # <<>>
    /\ Head(wire).op = "cmd"
    /\ ~srvIdle
    /\ inflight = <<>>
    /\ wire' = Tail(wire)
    /\ \E res \in {OkResponse(<<>>, Head(wire).id), AckResponse(Head(wire).id)} :
          \E chunks \in Chunkings(ResponseLines(ResponseFields, res)) :
              inflight' = chunks
    /\ UNCHANGED <<muxVars, commands, closed, state_changes, subscribed, inbox, write_ok,
                   srvVars, caller, sent, dropped, histVars, lastWrite, fatal, callVars,
                   rxbuf, convVars>>

\* One read of the transport returns the next chunk; the codec decodes what
\* it has buffered.
TransportDeliver ==
    /\ pc # "exited"
    /\ inflight # <<>>
    /\ LET decoded == Decode(rxbuf \o Head(inflight)) IN
          /\ inbox' = inbox \o decoded.frames
          /\ rxbuf' = decoded.rest
    /\ inflight' = Tail(inflight)
    /\ UNCHANGED <<muxVars, commands, closed, state_changes, subscribed, wire, write_ok,
                   srvVars, caller, sent, dropped, histVars, lastWrite, fatal, callVars,
                   convVars>>

\* The connection over a transport that stalls in the middle of a response
\* but does not fail.
ChunkNext ==
    \/ IdlingResponse
    \/ IdlingCommand
    \/ CancelIdleResponse
    \/ SendCommand
    \/ CommandReply
    \/ \E s \in Callers : Submit(s)
    \/ \E s \in Callers : DropFuture(s)
    \/ DropClient
    \/ SubscriberNext
    \/ \E sub \in Subsystems : ServerChange(sub)
    \/ ServerNotify
    \/ ServerRead
    \/ ServerReadChunked
    \/ TransportDeliver

ChunkSpec == Init /\ [][ChunkNext]_vars

\* C22: while a part of a command's response has not arrived, the loop stays
\* in WaitingForCommandReply, no value is sent on a responder, no caller
\* becomes replied and nothing is written; the codec yields the response, with
\* the fields of every chunk, when the last chunk arrives and nothing before;
\* and the reply sent on the responder is that response.
C22_ReplyOnlyWhenComplete ==
    [][/\ inflight # <<>> =>
             /\ pc = "loop" /\ loop_state = "WaitingForCommandReply"
             /\ inbox = <<>>
             /\ sent' = sent
             /\ \A s \in Subs : caller'[s] = "replied" => caller[s] = "replied"
             /\ NothingWritten
             /\ lastWrite' = lastWrite
             /\ pc' = pc /\ loop_state' = loop_state /\ responder' = responder
             /\ inflight' # inflight =>
                   IF Len(inflight) = 1
                   THEN /\ Len(inbox') = 1
                        /\ inbox'[1].re = responder
                        /\ inbox'[1].kind = "ok" => inbox'[1].fields = ResponseFields
                   ELSE inbox' = <<>>
       /\ (ReplyRead /\ Head(inbox).kind \in {"ok", "ack"}) =>
             /\ sent'[responder] = <<Head(inbox)>>
             /\ Head(inbox).fields \in {<<>>, ResponseFields}]_vars

\* The caller of a command whose response came in pieces has the whole
\* frame, and the loop idles again.
C22_Witness ==
    /\ pc = "loop" /\ loop_state = "Idling" /\ lastWrite = idle
    /\ \E s \in Subs :
          /\ caller[s] = "replied"
          /\ sent[s] = <<[OkResponse(<<>>, s) EXCEPT !.fields = ResponseFields]>>

----------------------------------------------------------------------------
\* More callers than the command channel holds

\* One caller more than mpsc::channel(2) has room for.
Producers == 1..(CommandsCapacity + 1)

ProducersInit == ConnectedWith(Producers) /\ NoCall /\ NoConversion

\* The connection with these callers, over a transport that may close.
ProducersNext ==
    \/ IdlingResponse
    \/ IdlingCommand
    \/ CancelIdleResponse
    \/ SendCommand
    \/ CommandReply
    \/ \E s \in Callers : Submit(s)
    \/ \E s \in Callers : DropFuture(s)
    \/ DropClient
    \/ SubscriberNext
    \/ \E sub \in Subsystems : ServerChange(sub)
    \/ ServerNotify
    \/ ServerRead
    \/ TransportEof

ProducersSpec == ProducersInit /\ [][ProducersNext]_vars

\* The caller whose send is next to enter the channel.
NextToSend(s) == caller[s] = "new" /\ \A r \in Callers : r < s => caller[r] # "new"

\* C23: the command channel never holds more than CommandsCapacity
\* submissions; while it is full the caller whose send is next cannot
\* complete it and stays where it is, neither accepted nor failed; its send
\* can complete as soon as the channel has room, which only run_loop taking
\* a submission makes; and a send ends with the submission queued last, or,
\* only when run_loop has ended, with ConnectionClosed.
C23_Backpressure ==
    [][/\ Len(commands') <= CommandsCapacity
       /\ \A s \in Callers :
             /\ (NextToSend(s) /\ Len(commands) = CommandsCapacity /\ pc # "exited") =>
                   /\ ~ENABLED Submit(s)
                   /\ caller'[s] = "new"
                   /\ ~dropped'[s]
                   /\ sent'[s] = <<>>
             /\ (NextToSend(s) /\ Len(commands) < CommandsCapacity /\ ~closed) =>
                   ENABLED Submit(s)
             /\ (caller[s] = "new" /\ caller'[s] # "new") =>
                   IF pc = "exited"
                   THEN caller'[s] = "closed" /\ commands' = commands
                   ELSE /\ caller'[s] = "waiting"
                        /\ Len(commands) < CommandsCapacity
                        /\ commands' = Append(commands, s)
       /\ (Len(commands) = CommandsCapacity /\ Len(commands') < CommandsCapacity
              /\ pc' # "exited") =>
             /\ commands' = Tail(commands)
             /\ takenIn'[Head(commands)] # "none"
             /\ responder' = Head(commands)]_vars

\* The channel is full again: the third caller's submission got in after
\* run_loop had taken the first, whose reply is still awaited.
C23_Witness ==
    /\ commands = <<2, 3>>
    /\ caller[3] = "waiting"
    /\ takenIn[1] # "none"
    /\ responder = 1
    /\ sent[1] = <<>>

----------------------------------------------------------------------------
\* Typed responses (commands/responses/mod.rs): Status::from_frame and the
\* value parsers it uses

\* The longest field value drawn character by character.
MaxText == 3
\* u8::MAX
U8Max == 255

\* A field value is a sequence of characters.
Chars == {"0", "1", ":", "-"}
Digits == {"0", "1"}
play == <<"p", "l", "a", "y">>
pause == <<"p", "a", "u", "s", "e">>
stop == <<"s", "t", "o", "p">>
oneshot == <<"o", "n", "e", "s", "h", "o", "t">>
NaN == <<"N", "a", "N">>

\* The field values drawn: every text of at most MaxText of the characters,
\* and the words the parsers know.
Texts ==
    UNION {[1..n -> Chars] : n \in 0..MaxText} \cup {play, pause, stop, oneshot, NaN}

\* Option: None and Some(x).
None == <<>>
Some(x) == <<x>>

\* Result: Ok(x) and Err(e), e a TypedResponseError.
Ok(x) == [ok |-> TRUE, val |-> x]
Err(e) == [ok |-> FALSE, err |-> e]

\* ErrorKind
Missing == [name |-> "Missing"]
InvalidValue(v) == [name |-> "InvalidValue", value |-> v]
MalformedInteger(e) == [name |-> "MalformedInteger", cause |-> e]
MalformedFloat(e) == [name |-> "MalformedFloat", cause |-> e]

TypedResponseError(field, kind) == [field |-> field, kind |-> kind]

\* The number a text of decimal digits denotes.
RECURSIVE Decimal(_)
Decimal(ds) ==
    IF ds = <<>> THEN 0
    ELSE 10 * Decimal(SubSeq(ds, 1, Len(ds) - 1)) + (IF ds[Len(ds)] = "1" THEN 1 ELSE 0)

IsDigits(v) == v # <<>> /\ \A i \in 1..Len(v) : v[i] \in Digits

\* The largest value of an unsigned type; only u8's is within reach of a
\* text of the lengths drawn.
FitsType(n, ty) == ty = "u8" => n <= U8Max

\* v.parse::<I>() for an unsigned I.
ParseUnsigned(v, ty) ==
    IF v = <<>> THEN Err("Empty")
    ELSE IF ~IsDigits(v) THEN Err("InvalidDigit")
    ELSE IF ~FitsType(Decimal(v), ty) THEN Err("PosOverflow")
    ELSE Ok(Decimal(v))

parse_integer(v, field, ty) ==
    LET r == ParseUnsigned(v, ty) IN
    IF r.ok THEN r ELSE Err(TypedResponseError(field, MalformedInteger(r.err)))

\* value.parse::<f64>(): a float is NaN, or has a sign and a magnitude.
ParseF64(v) ==
    IF v = <<>> THEN Err("Empty")
    ELSE IF v = NaN THEN Ok([nan |-> TRUE, neg |-> FALSE, mag |-> 0])
    ELSE IF IsDigits(v) THEN Ok([nan |-> FALSE, neg |-> FALSE, mag |-> Decimal(v)])
    ELSE IF Head(v) = "-" /\ IsDigits(Tail(v))
    THEN Ok([nan |-> FALSE, neg |-> TRUE, mag |-> Decimal(Tail(v))])
    ELSE Err("Invalid")

\* `v >= 0.0 && v <= Duration::MAX.as_secs_f64() && v.is_finite()`: -0.0 is
\* >= 0.0, and no text of the lengths drawn comes near Duration::MAX.
ReasonableDuration(f) == ~f.nan /\ (~f.neg \/ f.mag = 0)

parse_duration(field, v) ==
    LET r == ParseF64(v) IN
    IF ~r.ok THEN Err(TypedResponseError(field, MalformedFloat(r.err)))
    ELSE IF ReasonableDuration(r.val) THEN Ok(r.val.mag)
    ELSE Err(TypedResponseError(field, InvalidValue(v)))

Unsigned == {"u8", "u32", "u64", "usize"}

\* FromFieldValue::from_value for the type ty.
from_value(ty, v, field) ==
    CASE ty = "bool" ->
            IF v = <<"0">> THEN Ok(FALSE)
            ELSE IF v = <<"1">> THEN Ok(TRUE)
            ELSE Err(TypedResponseError(field, InvalidValue(v)))
      [] ty = "Duration" -> parse_duration(field, v)
      [] ty = "PlayState" ->
            IF v = play THEN Ok("Playing")
            ELSE IF v = pause THEN Ok("Paused")
            ELSE IF v = stop THEN Ok("Stopped")
            ELSE Err(TypedResponseError(field, InvalidValue(v)))
      [] ty \in Unsigned -> parse_integer(v, field, ty)
      [] OTHER -> Ok(v)

\* A field of a frame.
Field(k, v) == [key |-> k, value |-> v]

\* Frame::get(key): removes the first field with the key and returns its
\* value.
Get(frame, key) ==
    LET at == {i \in 1..Len(frame) : frame[i].key = key} IN
    IF at = {} THEN [found |-> None, rest |-> frame]
    ELSE LET i == CHOOSE k \in at : \A j \in at : k <= j
         IN [found |-> Some(frame[i].value),
             rest |-> SubSeq(frame, 1, i - 1) \o SubSeq(frame, i + 1, Len(frame))]

\* value(frame, field): a required value.
value(frame, field, ty) ==
    LET g == Get(frame, field) IN
    IF g.found = None THEN Err(TypedResponseError(field, Missing))
    ELSE from_value(ty, g.found[1], field)

\* optional_value(frame, field)
optional_value(frame, field, ty) ==
    LET g == Get(frame, field) IN
    IF g.found = None THEN Ok(None)
    ELSE LET r == from_value(ty, g.found[1], field) IN
         IF r.ok THEN Ok(Some(r.val)) ELSE r

\* str::split_once(':'): the parts before and after the first `:`.
SplitAtLast(v) ==
    LET at == {i \in 1..Len(v) : v[i] = ":"} IN
    IF at = {} THEN None
    ELSE LET i == CHOOSE k \in at : \A j \in at : k >= j
         IN Some(<<SubSeq(v, 1, i - 1), SubSeq(v, i + 1, Len(v))>>)
split_once(v) ==
    LET at == {i \in 1..Len(v) : v[i] = ":"} IN
    IF at = {} THEN None
    ELSE LET i == CHOOSE k \in at : \A j \in at : k <= j
         IN Some(<<SubSeq(v, 1, i - 1), SubSeq(v, i + 1, Len(v))>>)

\* The fields the struct expression of from_frame reads, in its order (but
\* `single` and `duration`, computed before): the key, the type, whether the
\* value is required, the default of an optional one, and for the id of a
\* song_identifier the position field that decides whether it is read.
Entry(k, ty, req, dflt, after) ==
    [key |-> k, ty |-> ty, req |-> req, dflt |-> dflt, after |-> after]
StatusFields ==
    << Entry("volume", "u8", FALSE, Some(0), ""),
       Entry("state", "PlayState", TRUE, None, ""),
       Entry("repeat", "bool", TRUE, None, ""),
       Entry("random", "bool", TRUE, None, ""),
       Entry("consume", "bool", TRUE, None, ""),
       Entry("playlistlength", "usize", FALSE, Some(0), ""),
       Entry("playlist", "u32", FALSE, Some(0), ""),
       Entry("song", "usize", FALSE, None, ""),
       Entry("songid", "u64", TRUE, None, "song"),
       Entry("nextsong", "usize", FALSE, None, ""),
       Entry("nextsongid", "u64", TRUE, None, "nextsong"),
       Entry("elapsed", "Duration", FALSE, None, ""),
       Entry("bitrate", "u64", FALSE, None, ""),
       Entry("xfade", "Duration", FALSE, Some(0), ""),
       Entry("update_job", "u64", FALSE, None, ""),
       Entry("error", "String", FALSE, None, ""),
       Entry("partition", "String", FALSE, None, "") >>

\* The fields read one after the other, each `?` returning the first error:
\* Ok(the values by key) or that error.
RECURSIVE ReadFields(_, _, _)
ReadFields(frame, todo, got) ==
    IF todo = <<>> THEN Ok(got)
    ELSE LET e == Head(todo) IN
         IF e.after # "" /\ got[e.after] = None
         THEN ReadFields(frame, Tail(todo), (e.key :> None) @@ got)
         ELSE LET r == IF e.req THEN value(frame, e.key, e.ty)
                       ELSE optional_value(frame, e.key, e.ty)
                  v == IF e.req THEN Some(r.val)
                       ELSE IF r.val = None THEN e.dflt ELSE r.val
              IN IF ~r.ok THEN r
                 ELSE ReadFields(Get(frame, e.key).rest, Tail(todo), (e.key :> v) @@ got)

\* The frames handed to from_frame: a response of a server to `status` ...
Required ==
    <<Field("state", play), Field("repeat", <<"0">>), Field("random", <<"1">>),
      Field("consume", <<"0">>)>>
StatusKeys == {StatusFields[i].key : i \in 1..Len(StatusFields)} \cup {"single"}
\* ... with any `duration` and `time`, with or without the required fields,
DualPathFrames ==
    {d \o tm \o rest :
        d \in {<<>>} \cup {<<Field("duration", v)>> : v \in Texts},
        tm \in {<<>>} \cup {<<Field("time", v)>> : v \in Texts},
        rest \in {<<>>, Required}}
\* ... or with one field of any value before the required ones, or with one
\* of these missing.
OneFieldFrames ==
    {<<Field(k, v)>> \o Required : k \in StatusKeys, v \in Texts}
    \cup {SelectSeq(Required, LAMBDA f : f.key # k) : k \in StatusKeys}
StatusFrames == DualPathFrames \cup OneFieldFrames

StatusInit ==
    /\ Connected
    /\ NoCall
    /\ given \in StatusFrames
    /\ raw = given
    /\ single = None
    /\ duration = None
    /\ conv_pc = "single"
    /\ result = Ok(None)

\* `let single = match raw.get("single") { .. }`
SingleMode ==
    /\ conv_pc = "single"
    /\ LET g == Get(raw, "single") IN
        /\ raw' = g.rest
        /\ IF g.found = None \/ g.found = Some(<<"0">>)
           THEN single' = Some("Disabled") /\ conv_pc' = "duration" /\ UNCHANGED result
           ELSE IF g.found = Some(<<"1">>)
           THEN single' = Some("Enabled") /\ conv_pc' = "duration" /\ UNCHANGED result
           ELSE IF g.found = Some(oneshot)
           THEN single' = Some("Oneshot") /\ conv_pc' = "duration" /\ UNCHANGED result
           ELSE /\ result' = Err(TypedResponseError("single", InvalidValue(g.found[1])))
                /\ conv_pc' = "returned"
                /\ UNCHANGED single
    /\ UNCHANGED <<connVars, callVars, given, duration>>

\* `let duration = if let Some(val) = raw.get("duration") { .. } else if let
\* Some(time) = raw.get("time") { .. } else { None }`
StatusDuration ==
    /\ conv_pc = "duration"
    /\ LET d == Get(raw, "duration")
           tm == Get(raw, "time")
       IN IF d.found # None
          THEN LET r == from_value("Duration", d.found[1], "duration") IN
               /\ raw' = d.rest
               /\ IF r.ok
                  THEN duration' = Some(r.val) /\ conv_pc' = "fields" /\ UNCHANGED result
                  ELSE result' = r /\ conv_pc' = "returned" /\ UNCHANGED duration
          ELSE IF tm.found # None
          THEN LET parts == split_once(tm.found[1]) IN
               /\ raw' = tm.rest
               /\ IF parts # None
                  THEN LET r == from_value("Duration", parts[1][2], "time") IN
                       IF r.ok
                       THEN duration' = Some(r.val) /\ conv_pc' = "fields"
                            /\ UNCHANGED result
                       ELSE result' = r /\ conv_pc' = "returned" /\ UNCHANGED duration
                  ELSE /\ result' = Err(TypedResponseError("time",
                                                           InvalidValue(tm.found[1])))
                       /\ conv_pc' = "returned"
                       /\ UNCHANGED duration
          ELSE /\ duration' = None
               /\ conv_pc' = "fields"
               /\ UNCHANGED <<raw, result>>
    /\ UNCHANGED <<connVars, callVars, given, single>>

\* `Ok(Self { volume: optional_value(f, "volume")?.unwrap_or(0), .. })`
StatusStruct ==
    /\ conv_pc = "fields"
    /\ LET r == ReadFields(raw, StatusFields,
                           ("single" :> single[1]) @@ ("duration" :> duration))
       IN result' = r
    /\ conv_pc' = "returned"
    /\ UNCHANGED <<connVars, callVars, given, raw, single, duration>>

StatusNext ==
    \/ SingleMode
    \/ StatusDuration
    \/ StatusStruct

StatusSpec == StatusInit /\ [][StatusNext]_vars

----------------------------------------------------------------------------
\* C24: from_frame computes the duration from the frame's `duration` field
\* when it has one, leaving `time` in the frame; otherwise from `time`, as
\* the text after its first `:`, and it fails with InvalidValue on `time`,
\* carrying the value, when that has no `:`; with neither field the duration
\* is None and the frame is left as it was. A text that does not parse makes
\* from_frame return the parser's error.
C24_DurationDualPath ==
    [][(conv_pc = "duration" /\ conv_pc' # "duration") =>
          LET valuesOf(k) == SelectSeq(raw, LAMBDA f : f.key = k)
              parsedFrom(r) ==
                  IF r.ok
                  THEN duration' = Some(r.val) /\ conv_pc' = "fields" /\ result' = result
                  ELSE result' = r /\ conv_pc' = "returned"
          IN IF valuesOf("duration") # <<>>
             THEN /\ parsedFrom(parse_duration("duration", valuesOf("duration")[1].value))
                  /\ SelectSeq(raw', LAMBDA f : f.key = "time") = valuesOf("time")
             ELSE IF valuesOf("time") # <<>>
             THEN LET text == valuesOf("time")[1].value
                      colons == {i \in 1..Len(text) : text[i] = ":"}
                  IN IF colons = {}
                     THEN /\ result' = Err(TypedResponseError("time", InvalidValue(text)))
                          /\ conv_pc' = "returned"
                     ELSE \E i \in colons :
                             /\ \A j \in colons : i <= j
                             /\ parsedFrom(parse_duration("time",
                                               SubSeq(text, i + 1, Len(text))))
             ELSE /\ duration' = None
                  /\ conv_pc' = "fields"
                  /\ raw' = raw]_vars

\* from_frame returned a Status whose duration is the part after the `:` of
\* a legacy `time` field.
C24_Witness ==
    /\ conv_pc = "returned"
    /\ result.ok
    /\ given = <<Field("time", <<"0", ":", "1">>)>> \o Required
    /\ result.val["duration"] = Some(1)

----------------------------------------------------------------------------
\* C25: an error returned by from_frame names the field that was being
\* parsed and, unless the field is missing, carries the text that field had
\* in the frame; the kind is Missing exactly when the frame has no such field.
C25_ErrorsCarryFieldAndValue ==
    (conv_pc = "returned" /\ ~result.ok) =>
        LET e == result.err
            had == SelectSeq(given, LAMBDA f : f.key = e.field)
        IN IF e.kind.name = "Missing"
           THEN had = <<>>
           ELSE /\ had # <<>>
                /\ "value" \in DOMAIN e.kind
                /\ e.kind.value = had[1].value

----------------------------------------------------------------------------
\* C26: a response is sent on a responder only as the reply read while the
\* loop waits for that responder's command, and it is the server's response
\* to that very command; an Err is sent on a responder only when a read or a
\* write failed; and the frame that ends an idle, read in Idling or after
\* `noidle`, is never sent on a responder and is never a command's response.
C26_ReplyAttribution ==
    [][/\ \A s \in Subs :
             sent'[s] # sent[s] =>
                LET v == sent'[s][Len(sent'[s])] IN
                /\ v.kind \in {"ok", "ack", "err"}
                /\ v.kind \in {"ok", "ack"} =>
                      /\ ReplyRead
                      /\ responder = s
                      /\ v = Head(inbox)
                      /\ v.re = s
                      /\ wrote[s] = 1
                /\ v.kind = "err" =>
                      \/ ~write_ok
                      \/ inbox # <<>> /\ Head(inbox).kind = "err"
       /\ (IdleFrameRead /\ Head(inbox).kind \in {"ok", "ack"}) =>
             /\ Head(inbox).re = 0
             /\ sent' = sent]_vars

\* The server ended the idle on its own while `noidle` for the second
\* submission was on its way, which it will ignore; the first submission,
\* taken in Idling as well, has got the response to its own command.
C26_Witness ==
    /\ pc = "cancel_idle"
    /\ responder = 2
    /\ wire = <<cancel_idle>>
    /\ ~srvIdle
    /\ inbox = <<OkResponse(<<"player">>, 0)>>
    /\ takenIn[1] = "Idling"
    /\ sent[1] = <<OkResponse(<<>>, 1)>>

====
